---- MODULE Spec2Model ----
(***************************************************************************)
(* A model of the dsmr4p1 library: the P1 telegram reader (startPolling,   *)
(* Poll), the checksum it verifies, and Telegram.Parse.                    *)
(*                                                                         *)
(* Bytes are their ASCII codes; a byte string is a sequence of them.  The  *)
(* byte source is a sequence of items (a byte, or ERR: a read that fails   *)
(* with an error other than io.EOF) followed by a tail that every later    *)
(* read returns: io.EOF, or the same read error again.                     *)
(***************************************************************************)
EXTENDS Integers, Sequences, FiniteSets, TLC

VARIABLES
    plan,       \* how the meter side laid out the stream: its segments
    stream,     \* the items the io.Reader yields, in order
    tail,       \* what the io.Reader returns once stream is used up
    pos,        \* number of items bufio.Reader br has handed out
    rpc,        \* position of the startPolling goroutine
    data,       \* startPolling's local data (the captured '/' .. '!')
    validated,  \* history: the frames whose CRC matched, with their place
    received,   \* the Telegrams the consumer took from the channel
    closes,     \* number of close(ch) calls
    nlog,       \* number of log.Print* calls (saturating at MaxLog)
    cpc,        \* position of the consumer (for t := range ch { t.Parse() })
    parseOut,   \* outcome of the consumer's last t.Parse()
    arg,        \* the argument of a call of one of the library's functions
    ret,        \* what that call ended in
    dr          \* the delayedReader RateLimit made, and what was read from it

vars == <<plan, stream, tail, pos, rpc, data, validated, received, closes, nlog,
          cpc, parseOut, arg, ret, dr>>

\* The state of startPolling, its byte source, its channel and its consumer;
\* and the state of the calls a program makes besides.
poller == <<plan, stream, tail, pos, rpc, data, validated, received, closes,
            nlog, cpc, parseOut>>
calls == <<arg, ret, dr>>

----------------------------------------------------------------------------
(* Bytes *)

SLASH == 47
BANG == 33
CR == 13
LF == 10
LPAREN == 40
RPAREN == 41
ERR == -1

\* len(crcBytes) of a well-formed trailer line
CRCLen == 6

CRLF == <<CR, LF>>

\* Bounds of the model
MaxSegs == 3
MaxLog == 2
MaxNoise == 2
MaxLines == 4
MaxRecords == 2
MaxStr == 4
MaxAfter == 2
MaxBytes == 3
MaxSrc == 4
MaxP == 3

Min(S) == CHOOSE x \in S : \A y \in S : x <= y

Last(s) == s[Len(s)]

----------------------------------------------------------------------------
(* Checksum Engine: crc16.Checksum(data, crc16.MakeTableNoXOR(crc16.IBM)) *)

IBM == 40961

\* Bitwise exclusive or of two naturals.  (A function, so that TLC works
\* on the arguments' values.)
Xor[a \in Nat, b \in Nat] ==
    IF a = 0 THEN b
    ELSE IF b = 0 THEN a
    ELSE ((a + b) % 2) + 2 * Xor[a \div 2, b \div 2]

\* makeTable's inner loop: 8 shifts of the 16-bit register, least
\* significant bit first.
TableEntry[crc \in Nat, j \in 0..8] ==
    IF j = 8 THEN crc
    ELSE TableEntry[IF crc % 2 = 1 THEN Xor[crc \div 2, IBM] ELSE crc \div 2,
                    j + 1]

\* The 256-entry table MakeTableNoXOR(IBM) builds.
ibmTableNoXOR == [i \in 0..255 |-> TableEntry[i, 0]]

\* crc = table[byte(crc) ^ v] ^ (crc >> 8), for each v of p, from crc.
updateNoXOR[crc \in Nat, p \in Seq(Nat)] ==
    IF p = <<>> THEN crc
    ELSE updateNoXOR[Xor[ibmTableNoXOR[Xor[crc % 256, Head(p)]], crc \div 256],
                     Tail(p)]

\* crc16.Update as it is for a table made by MakeTable: the register is
\* complemented before and after.
ChecksumComplemented(p) == 65535 - updateNoXOR[65535, p]

Checksum(p) == updateNoXOR[0, p]

\* p1crc16 of the earlier version of the package: the same loop, written out
\* over crc16.IBMTable (the entries MakeTable(IBM) builds, which are those of
\* MakeTableNoXOR(IBM)), after its first k turns.
p1crc16Loop[d \in Seq(Nat), k \in Nat] ==
    IF k = 0 THEN 0
    ELSE Xor[ibmTableNoXOR[Xor[p1crc16Loop[d, k - 1] % 256, d[k]]],
             p1crc16Loop[d, k - 1] \div 256]

p1crc16(d) == p1crc16Loop[d, Len(d)]

\* One digit of %X: 0-9, then A-F.
HexDigit(d) == IF d < 10 THEN 48 + d ELSE 55 + d

\* %04x: the same in lowercase digits.
Sprintf04XLower(n) ==
    <<HexDigit(n \div 4096) + (IF n \div 4096 >= 10 THEN 32 ELSE 0),
      HexDigit((n \div 256) % 16) + (IF (n \div 256) % 16 >= 10 THEN 32 ELSE 0),
      HexDigit((n \div 16) % 16) + (IF (n \div 16) % 16 >= 10 THEN 32 ELSE 0),
      HexDigit(n % 16) + (IF n % 16 >= 10 THEN 32 ELSE 0)>>

\* fmt.Sprintf("%04X", n) for a uint16 n.
Sprintf04X(n) ==
    <<HexDigit(n \div 4096), HexDigit((n \div 256) % 16),
      HexDigit((n \div 16) % 16), HexDigit(n % 16)>>

----------------------------------------------------------------------------
(* bufio.Reader over the byte source *)

\* br.ReadBytes(delim) from item p on: the bytes up to and including the
\* first delim, err "nil"; or the bytes before a failing read and that
\* read's error; or, with the items used up, the rest and the tail's error.
ReadBytes(delim, p) ==
    LET stops == {j \in (p + 1)..Len(stream) :
                     stream[j] = delim \/ stream[j] = ERR}
    IN  IF stops = {}
        THEN [data |-> SubSeq(stream, p + 1, Len(stream)), err |-> tail,
              pos |-> Len(stream)]
        ELSE LET j == Min(stops)
             IN  IF stream[j] = delim
                 THEN [data |-> SubSeq(stream, p + 1, j), err |-> "nil",
                       pos |-> j]
                 ELSE [data |-> SubSeq(stream, p + 1, j - 1), err |-> "ERR",
                       pos |-> j]

\* br.UnreadByte() after a read that handed out p items: ErrInvalidUnreadByte
\* when nothing was read, else one item back.
UnreadByteSkipped(p) == [err |-> "nil", pos |-> p]
UnreadByte(p) ==
    IF p = 0 THEN [err |-> "ErrInvalidUnreadByte", pos |-> p]
    ELSE [err |-> "nil", pos |-> p - 1]

\* log.Println / log.Printf
Log == nlog' = IF nlog < MaxLog THEN nlog + 1 ELSE nlog

----------------------------------------------------------------------------
(* startPolling *)

\* dataCRC == computedCRC
crcMatchMutant(crcBytes, d) == TRUE
crcMatchPrefix(crcBytes, d) ==
    SubSeq(crcBytes, 1, 3) = SubSeq(Sprintf04X(Checksum(d)), 1, 3)
crcMatchFold(crcBytes, d) ==
    [i \in 1..4 |-> IF crcBytes[i] \in 97..102 THEN crcBytes[i] - 32
                    ELSE crcBytes[i]] = Sprintf04X(Checksum(d))
crcMatch(crcBytes, d) == SubSeq(crcBytes, 1, 4) = Sprintf04X(Checksum(d))

\* Line 99: err == io.EOF
isEOFMutant(err) == FALSE
isEOF(err) == err = "EOF"

\* Lines 98-111: read up to the next '/', unread it.
SeekStart ==
    /\ rpc = "seek"
    /\ LET r == ReadBytes(SLASH, pos)
           u == UnreadByte(r.pos)
       IN  IF isEOF(r.err)
           THEN /\ rpc' = "close"
                /\ pos' = r.pos
                /\ UNCHANGED nlog
           ELSE IF r.err # "nil"
           THEN /\ Log
                /\ pos' = r.pos
                /\ rpc' = "logged"
           ELSE IF u.err # "nil"
           THEN /\ Log
                /\ pos' = u.pos
                /\ rpc' = "logged"
           ELSE /\ pos' = u.pos
                /\ rpc' = "body"
                /\ UNCHANGED nlog
    /\ UNCHANGED <<plan, stream, tail, data, validated, received, closes, cpc,
                   parseOut>>
    /\ UNCHANGED calls

\* Lines 103, 110, 117, 124, 129, 139: after the log line, back to the head
\* of the loop.
Continue ==
    /\ rpc = "logged"
    /\ rpc' = "seek"
    /\ UNCHANGED <<plan, stream, tail, pos, data, validated, received, closes,
                   nlog, cpc, parseOut>>
    /\ UNCHANGED calls

\* Lines 114-118: read through the next '!'.
CaptureBody ==
    /\ rpc = "body"
    /\ LET r == ReadBytes(BANG, pos)
       IN  /\ pos' = r.pos
           /\ IF r.err # "nil"
              THEN /\ Log
                   /\ rpc' = "logged"
                   /\ UNCHANGED data
              ELSE /\ data' = r.data
                   /\ rpc' = "trailer"
                   /\ UNCHANGED nlog
    /\ UNCHANGED <<plan, stream, tail, validated, received, closes, cpc,
                   parseOut>>
    /\ UNCHANGED calls

\* Lines 122-130: the trailer line was read whole and is 6 bytes long.
trailerOKMutant(r) == Len(r.data) >= 4
trailerOK(r) == r.err = "nil" /\ Len(r.data) = CRCLen

\* Lines 121-139 with a break where line 129 continues.
CaptureTrailerBreak ==
    /\ rpc = "trailer"
    /\ LET r == ReadBytes(LF, pos)
       IN  /\ pos' = r.pos
           /\ IF r.err # "nil"
              THEN /\ Log
                   /\ rpc' = "logged"
                   /\ UNCHANGED validated
              ELSE IF Len(r.data) # CRCLen
              THEN /\ Log
                   /\ rpc' = "close"
                   /\ UNCHANGED validated
              ELSE IF crcMatch(r.data, data)
              THEN /\ validated' = Append(validated, [t |-> data, end |-> pos])
                   /\ rpc' = "send"
                   /\ UNCHANGED nlog
              ELSE /\ Log
                   /\ rpc' = "logged"
                   /\ UNCHANGED validated
    /\ UNCHANGED <<plan, stream, tail, data, received, closes, cpc, parseOut>>
    /\ UNCHANGED calls

\* Lines 121-139: read the trailer line, check its length, compare the CRCs.
CaptureTrailer ==
    /\ rpc = "trailer"
    /\ LET r == ReadBytes(LF, pos)
       IN  /\ pos' = r.pos
           /\ IF ~trailerOK(r)
              THEN /\ Log
                   /\ rpc' = "logged"
                   /\ UNCHANGED validated
              ELSE IF crcMatch(r.data, data)
              THEN /\ validated' = Append(validated, [t |-> data, end |-> pos])
                   /\ rpc' = "send"
                   /\ UNCHANGED nlog
              ELSE /\ Log
                   /\ rpc' = "logged"
                   /\ UNCHANGED validated
    /\ UNCHANGED <<plan, stream, tail, data, received, closes, cpc, parseOut>>
    /\ UNCHANGED calls

\* A send after which the reader does not move on.
HandoffAgain ==
    /\ rpc = "send"
    /\ cpc = "recv"
    /\ received' = Append(received, data)
    /\ cpc' = "got"
    /\ UNCHANGED <<plan, stream, tail, pos, rpc, data, validated, closes, nlog,
                   parseOut>>
    /\ UNCHANGED calls

\* A send that does not wait for the consumer.
HandoffMutant ==
    /\ rpc = "send"
    /\ rpc' = "seek"
    /\ UNCHANGED <<plan, stream, tail, pos, data, validated, received, closes,
                   nlog, cpc, parseOut>>
    /\ UNCHANGED calls

\* A send that gives up when the consumer has gone.
HandoffOrDrop ==
    /\ rpc = "send"
    /\ IF cpc = "stopped"
       THEN /\ rpc' = "seek"
            /\ UNCHANGED <<received, cpc>>
       ELSE /\ cpc = "recv"
            /\ received' = Append(received, data)
            /\ rpc' = "seek"
            /\ cpc' = "got"
    /\ UNCHANGED <<plan, stream, tail, pos, data, validated, closes, nlog, parseOut>>
    /\ UNCHANGED calls

\* Line 136 meets the consumer's receive: ch is unbuffered (line 149), so
\* the send completes exactly when the consumer takes the Telegram.
Handoff ==
    /\ rpc = "send"
    /\ cpc = "recv"
    /\ received' = Append(received, data)
    /\ rpc' = "seek"
    /\ cpc' = "got"
    /\ UNCHANGED <<plan, stream, tail, pos, data, validated, closes, nlog, parseOut>>
    /\ UNCHANGED calls

\* Line 142, after the break of line 100.
Close ==
    /\ rpc = "close"
    /\ closes' = closes + 1
    /\ rpc' = "done"
    /\ UNCHANGED <<plan, stream, tail, pos, data, validated, received, nlog, cpc,
                   parseOut>>
    /\ UNCHANGED calls

----------------------------------------------------------------------------
(* Telegram.Parse *)

\* strings.Index(s, sep): 0-based place of the first sep in s, or -1.
Index[s \in Seq(Int), sep \in Seq(Int)] ==
    LET hits == {i \in 0..(Len(s) - Len(sep)) :
                    SubSeq(s, i + 1, i + Len(sep)) = sep}
    IN  IF hits = {} THEN -1 ELSE Min(hits)

\* strings.Split(s, sep) for a non-empty sep.
Split[s \in Seq(Int), sep \in Seq(Int)] ==
    IF Index[s, sep] = -1 THEN <<s>>
    ELSE <<SubSeq(s, 1, Index[s, sep])>>
         \o Split[SubSeq(s, Index[s, sep] + Len(sep) + 1, Len(s)), sep]

\* Go's s[lo:hi] aborts (runtime panic) unless 0 <= lo <= hi <= len(s).
SliceOK(s, lo, hi) == 0 <= lo /\ lo <= hi /\ hi <= Len(s)
Slice(s, lo, hi) == SubSeq(s, lo + 1, hi)

NoMap == <<>>

\* What a call of Parse ends in: a runtime panic, or its two return values
\* (isNil: the map returned is nil).
Panic == [panic |-> TRUE, err |-> "nil", isNil |-> TRUE, result |-> NoMap]
Failure(msg) == [panic |-> FALSE, err |-> msg, isNil |-> TRUE, result |-> NoMap]
Success(m) == [panic |-> FALSE, err |-> "nil", isNil |-> FALSE, result |-> m]

\* result[idCode] = parts
MapPutFirst(m, k, v) ==
    [x \in DOMAIN m \cup {k} |-> IF x \in DOMAIN m THEN m[x] ELSE v]
MapPut(m, k, v) == [x \in DOMAIN m \cup {k} |-> IF x = k THEN v ELSE m[x]]

\* Lines 48-58: one turn of the loop, for data line l, with the map so far.
ParseLine(l, result) ==
    IF Index[l, <<LPAREN>>] = -1 THEN Failure("paren")
    ELSE IF ~SliceOK(l, Index[l, <<LPAREN>>] + 1, Len(l) - 1) THEN Panic
    ELSE Success(MapPut(result, Slice(l, 0, Index[l, <<LPAREN>>]),
                        Split[Slice(l, Index[l, <<LPAREN>>] + 1, Len(l) - 1),
                              <<RPAREN, LPAREN>>]))

\* Lines 47-59: the loop over the data lines ls, after its first k turns; a
\* turn that returns or panics ends it.
ParseLines[ls \in Seq(Seq(Int)), k \in Nat] ==
    IF k = 0 THEN Success(NoMap)
    ELSE CHOOSE out \in
            {IF before.panic \/ before.err # "nil" THEN before
             ELSE ParseLine(ls[k], before.result) :
                before \in {ParseLines[ls, k - 1]}} : TRUE

\* Lines 28-61.
Parse(t) ==
    LET lines == Split[t, CRLF]
    IN  IF Len(lines) < 2 THEN Failure("lines")
        ELSE IF Len(lines[1]) = 0 THEN Panic
        ELSE IF lines[1][1] # SLASH THEN Failure("slash")
        ELSE IF Len(lines[2]) # 0 THEN Failure("separator")
        ELSE IF ~SliceOK(lines, 2, Len(lines) - 1) THEN Panic
        ELSE ParseLines[Slice(lines, 2, Len(lines) - 1), Len(lines) - 3]

\* The consumer's t.Parse() on the Telegram it just received.
ParseTelegram ==
    /\ cpc = "got"
    /\ parseOut' = Parse(Last(received))
    /\ cpc' = "recv"
    /\ UNCHANGED <<plan, stream, tail, pos, rpc, data, validated, received, closes,
                   nlog>>
    /\ UNCHANGED calls

\* Telegram.Identifier, lines 17-18: t[5:i], i the place of the first
\* CR LF CR LF (-1 when there is none); the slice expression panics on
\* bounds out of range.
Identifier(t) ==
    IF ~SliceOK(t, 5, Index[t, CRLF \o CRLF])
    THEN [fn |-> "Identifier", panic |-> TRUE, str |-> <<>>]
    ELSE [fn |-> "Identifier", panic |-> FALSE,
          str |-> Slice(t, 5, Index[t, CRLF \o CRLF])]

\* The consumer's t.Identifier() on the Telegram it just received.
IdentifyTelegram ==
    /\ cpc = "got"
    /\ ret' = Identifier(Last(received))
    /\ UNCHANGED <<poller, arg, dr>>

\* The consumer's range over ch ends once ch is closed.
RangeEnd ==
    /\ cpc = "recv"
    /\ closes > 0
    /\ cpc' = "end"
    /\ UNCHANGED <<plan, stream, tail, pos, rpc, data, validated, received, closes,
                   nlog, parseOut>>
    /\ UNCHANGED calls

----------------------------------------------------------------------------
(* The byte streams the model feeds to Poll *)

\* The meter's side of the wire: the 16 uppercase hexadecimal digits.
HexChars == <<48, 49, 50, 51, 52, 53, 54, 55, 56, 57, 65, 66, 67, 68, 69, 70>>
WireCRC(n) ==
    <<HexChars[(n \div 4096) + 1], HexChars[((n \div 256) % 16) + 1],
      HexChars[((n \div 16) % 16) + 1], HexChars[(n % 16) + 1]>>

BodyMin == <<SLASH, 65, BANG>>
BodyTwo == <<SLASH, 72, CR, LF, BANG>>
BodyOk == <<SLASH, 72, CR, LF, CR, LF, 65, LPAREN, 49, RPAREN, CR, LF, BANG>>
BodyOpen == <<SLASH, 72, CR, LF, CR, LF, 65, LPAREN, CR, LF, BANG>>
Bodies == {BodyMin, BodyTwo, BodyOk, BodyOpen}

Seg(kind, body, bytes) == [kind |-> kind, body |-> body, bytes |-> bytes]

Noise(bytes) == Seg("noise", <<>>, bytes)
\* '/' .. '!', the 4 digits of the body's checksum, CR LF
GoodFrame(b) == Seg("good", b, b \o WireCRC(Checksum(b)) \o CRLF)
\* the same with the 4 digits of another value
BadFrame(b) == Seg("bad", b, b \o WireCRC((Checksum(b) + 1) % 65536) \o CRLF)
\* '/' .. '!', CR LF, the 4 digits, CR LF
CRLFFrame(b) == Seg("crlf", b, b \o CRLF \o WireCRC(Checksum(b)) \o CRLF)
\* a frame cut before its '!', or before its trailer's LF
CutFrame(bytes) == Seg("cut", <<>>, bytes)

Segments ==
    {Noise(<<88, SLASH>>), Noise(<<ERR>>)}
    \cup {GoodFrame(b) : b \in {BodyMin, BodyOk, BodyOpen}}
    \cup {BadFrame(BodyMin), CRLFFrame(BodyMin)}
    \cup {CutFrame(<<SLASH, 65>>), CutFrame(BodyMin \o WireCRC(Checksum(BodyMin)))}

RECURSIVE Flatten(_)
Flatten(p) == IF p = <<>> THEN <<>> ELSE Head(p).bytes \o Flatten(Tail(p))

NotParsed == [panic |-> FALSE, err |-> "unset", isNil |-> TRUE, result |-> NoMap]

\* No call of a library function made yet; no delayedReader made yet.
NoCall == [fn |-> "none"]
NoReader == [made |-> FALSE]
NoCalls ==
    /\ arg = <<>>
    /\ ret = NoCall
    /\ dr = NoReader

\* Before Poll is called: no source, no channel, no reader goroutine.
Idle ==
    /\ plan = <<>>
    /\ stream = <<>>
    /\ tail = "EOF"
    /\ pos = 0
    /\ data = <<>>
    /\ validated = <<>>
    /\ received = <<>>
    /\ closes = 0
    /\ nlog = 0
    /\ parseOut = NotParsed

Init ==
    /\ Idle
    /\ rpc = "idle"
    /\ cpc = "idle"
    /\ NoCalls

\* Poll(input) on a source that yields p's bytes and then tl: ch is made,
\* the goroutine is about to run startPolling, the caller ranges over ch.
PollOn(p, tl) ==
    /\ rpc = "idle"
    /\ cpc = "idle"
    /\ plan' = p
    /\ stream' = Flatten(p)
    /\ tail' = tl
    /\ rpc' = "seek"
    /\ cpc' = "recv"
    /\ UNCHANGED <<pos, data, validated, received, closes, nlog, parseOut>>

Poll ==
    /\ rpc = "idle"
    /\ \E n \in 0..MaxSegs : \E p \in [1..n -> Segments] :
          \E tl \in {"EOF", "ERR"} : PollOn(p, tl)
    /\ UNCHANGED calls

Next ==
    \/ Poll
    \/ SeekStart
    \/ Continue
    \/ CaptureBody
    \/ CaptureTrailer
    \/ Handoff
    \/ Close
    \/ ParseTelegram
    \/ RangeEnd

Spec == Init /\ [][Next]_vars

\* The Go scheduler runs every goroutine that can take a step.
Fairness ==
    /\ WF_vars(SeekStart)
    /\ WF_vars(Continue)
    /\ WF_vars(CaptureBody)
    /\ WF_vars(CaptureTrailer)
    /\ WF_vars(Handoff)
    /\ WF_vars(Close)
    /\ WF_vars(ParseTelegram)
    /\ WF_vars(RangeEnd)

FairSpec == Spec /\ Fairness

----------------------------------------------------------------------------
(* Noise, a well-formed frame, a frame with a wrong trailer, a well-formed *)
(* frame, end of stream.                                                   *)

NoiseBytes == {88, SLASH, BANG, LF}
NoiseStrings == UNION {[1..n -> NoiseBytes] : n \in 1..MaxNoise}

PollScenario ==
    /\ rpc = "idle"
    /\ \E n \in NoiseStrings, b1 \in Bodies, b2 \in Bodies, b3 \in Bodies :
          PollOn(<<Noise(n), GoodFrame(b1), BadFrame(b2), GoodFrame(b3)>>,
                 "EOF")
    /\ UNCHANGED calls

ScenarioNext ==
    \/ PollScenario
    \/ SeekStart
    \/ Continue
    \/ CaptureBody
    \/ CaptureTrailer
    \/ Handoff
    \/ Close
    \/ ParseTelegram
    \/ RangeEnd

ScenarioSpec == Init /\ [][ScenarioNext]_vars /\ Fairness

----------------------------------------------------------------------------
(* Parse on a Telegram value a caller built from lines joined by CR LF *)

Line(bytes) == Seg("line", <<>>, bytes)

Lines ==
    {Line(<<>>), Line(<<SLASH>>), Line(<<SLASH, 72>>), Line(<<65>>),
     Line(<<65, LPAREN>>), Line(<<65, LPAREN, 49, RPAREN>>),
     Line(<<65, LPAREN, 49, RPAREN, LPAREN, 50, RPAREN>>), Line(<<LPAREN>>),
     Line(<<BANG>>), Line(<<88, CR>>), Line(<<LF>>)}

RECURSIVE JoinLines(_)
JoinLines(p) ==
    IF Len(p) = 1 THEN p[1].bytes
    ELSE p[1].bytes \o CRLF \o JoinLines(Tail(p))

ParseInit ==
    /\ \E n \in 1..MaxLines : plan \in [1..n -> Lines]
    /\ stream = <<>>
    /\ tail = "EOF"
    /\ pos = 0
    /\ rpc = "idle"
    /\ data = <<>>
    /\ validated = <<>>
    /\ received = <<JoinLines(plan)>>
    /\ closes = 0
    /\ nlog = 0
    /\ cpc = "got"
    /\ parseOut = NotParsed
    /\ NoCalls

ParseNext == ParseTelegram

ParseSpec == ParseInit /\ [][ParseNext]_vars

----------------------------------------------------------------------------
(* A Telegram of records: the meter writes a header line, a blank line, one *)
(* data line per record and '!'; the poller delivers it; the consumer       *)
(* parses it.                                                               *)

\* One data line as the meter writes it: code(v1)(v2)...(vn)
RECURSIVE Values(_)
Values(vs) ==
    IF vs = <<>> THEN <<>>
    ELSE <<LPAREN>> \o Head(vs) \o <<RPAREN>> \o Values(Tail(vs))
DataLine(rec) == rec.code \o Values(rec.vals)

RECURSIVE DataLines(_)
DataLines(recs) ==
    IF recs = <<>> THEN <<>>
    ELSE DataLine(Head(recs)) \o CRLF \o DataLines(Tail(recs))

\* header line, blank line, the data lines, '!'
TelegramOf(hdr, recs) == hdr \o CRLF \o CRLF \o DataLines(recs) \o <<BANG>>

\* "/H", "/HDR", "/KFM5" and "/KFM5ID"
Headers ==
    {<<SLASH, 72>>, <<SLASH, 72, 68, 82>>, <<SLASH, 75, 70, 77, 53>>,
     <<SLASH, 75, 70, 77, 53, 73, 68>>}

\* "1-0:1.7.0" and "0001.234*kW"
PowerCode == <<49, 45, 48, 58, 49, 46, 55, 46, 48>>
PowerValue == <<48, 48, 48, 49, 46, 50, 51, 52, 42, 107, 87>>

Rec(code, vals) == [code |-> code, vals |-> vals]
Codes == {<<65>>, <<66>>}
Texts == {<<>>, <<50, 42>>}
Records ==
    {Rec(c, vs) : c \in Codes, vs \in UNION {[1..n -> Texts] : n \in 1..2}}
    \cup {Rec(PowerCode, <<PowerValue>>)}

PollRecords ==
    /\ rpc = "idle"
    /\ \E hdr \in Headers : \E n \in 0..MaxRecords : \E recs \in [1..n -> Records] :
          /\ PollOn(<<GoodFrame(TelegramOf(hdr, recs))>>, "EOF")
          /\ arg' = recs
    /\ UNCHANGED <<ret, dr>>

RecordNext ==
    \/ PollRecords
    \/ SeekStart
    \/ CaptureBody
    \/ CaptureTrailer
    \/ Handoff
    \/ Close
    \/ IdentifyTelegram
    \/ ParseTelegram
    \/ RangeEnd

RecordSpec == Init /\ [][RecordNext]_vars

----------------------------------------------------------------------------
(* ParseValueWithUnit *)

STAR == 42
DOT == 46
LowerK == 107

ErrorParseValueWithUnit ==
    "error parsing string that should contain both a value and a unit"

\* A float64 that a decimal numeral denotes: the digits m, scaled by 10^-e.
\* (Binary rounding is left out: the numerals of the model have few digits.)
Float(m, e) == [m |-> m, e |-> e]

\* The digits of s read as one natural number, any '.' skipped.
RECURSIVE Mantissa(_)
Mantissa(s) ==
    IF s = <<>> THEN 0
    ELSE IF Last(s) = DOT THEN Mantissa(SubSeq(s, 1, Len(s) - 1))
    ELSE (Last(s) - 48) + 10 * Mantissa(SubSeq(s, 1, Len(s) - 1))

\* strconv.ParseFloat(s, 64) on a string of digits, '.', '*' and letters
\* other than those of an exponent, a hexadecimal numeral, "inf" or "nan":
\* a numeral is digits with at most one '.', and at least one digit.
ParseFloat(s) ==
    LET dots == {i \in 1..Len(s) : s[i] = DOT}
        digits == {i \in 1..Len(s) : s[i] \in 48..57}
    IN  IF digits = {} \/ Cardinality(dots) > 1
           \/ Cardinality(dots) + Cardinality(digits) # Len(s)
        THEN [value |-> Float(0, 0), err |-> "strconv.ErrSyntax"]
        ELSE [value |-> Float(Mantissa(s),
                              IF dots = {} THEN 0 ELSE Len(s) - Min(dots)),
              err |-> "nil"]

\* strings.HasPrefix(s, prefix)
HasPrefix(s, prefix) ==
    Len(s) >= Len(prefix) /\ SubSeq(s, 1, Len(prefix)) = prefix

\* value *= 1000
Times1000(v) == Float(v.m * 1000, v.e)

\* Lines 86-89 with a prefix that is scaled whatever it is.
scaledMutant(value, unit) ==
    IF unit # <<>>
    THEN [value |-> Times1000(value), unit |-> Tail(unit)]
    ELSE [value |-> value, unit |-> unit]

\* Lines 86-89.
scaled(value, unit) ==
    IF HasPrefix(unit, <<LowerK>>)
    THEN [value |-> Times1000(value), unit |-> Tail(unit)]
    ELSE [value |-> value, unit |-> unit]

\* Lines 75-91.  The results are named: what a return leaves unassigned is
\* the zero value.
ParseValueWithUnit(input) ==
    LET parts == Split[input, <<STAR>>]
    IN  IF Len(parts) # 2
        THEN [fn |-> "ParseValueWithUnit", value |-> Float(0, 0), unit |-> <<>>,
              err |-> ErrorParseValueWithUnit]
        ELSE IF ParseFloat(parts[1]).err # "nil"
        THEN [fn |-> "ParseValueWithUnit", value |-> ParseFloat(parts[1]).value,
              unit |-> <<>>, err |-> ParseFloat(parts[1]).err]
        ELSE [fn |-> "ParseValueWithUnit",
              value |-> scaled(ParseFloat(parts[1]).value, parts[2]).value,
              unit |-> scaled(ParseFloat(parts[1]).value, parts[2]).unit,
              err |-> "nil"]

\* Nothing polls: the program only calls the library's functions.
Quiet ==
    /\ Idle
    /\ rpc = "idle"
    /\ cpc = "idle"

\* '1', '5', '.', '*', 'k', 'M', 'V'
ValueBytes == {49, 53, DOT, STAR, LowerK, 77, 86}

\* "1234.567*kWh", "230.0*V", "bad"
ValueExamples ==
    {<<49, 50, 51, 52, 46, 53, 54, 55, 42, 107, 87, 104>>,
     <<50, 51, 48, 46, 48, 42, 86>>, <<98, 97, 100>>}

ValueInit ==
    /\ Quiet
    /\ arg \in UNION {[1..n -> ValueBytes] : n \in 0..MaxStr} \cup ValueExamples
    /\ ret = NoCall
    /\ dr = NoReader

CallParseValueWithUnit ==
    /\ ret = NoCall
    /\ ret' = ParseValueWithUnit(arg)
    /\ UNCHANGED <<poller, arg, dr>>

ValueNext == CallParseValueWithUnit

ValueSpec == ValueInit /\ [][ValueNext]_vars

----------------------------------------------------------------------------
(* ParseTimestamp *)

summerTimezone == "CEST"
winterTimezone == "CET"

ErrorParseTimestamp == "error parsing timestamp: missing DST indicator"

UpperS == 83
UpperW == 87

\* The number two decimal digits at s[i], s[i+1] denote.
TwoDigits(s, i) == 10 * (s[i] - 48) + (s[i + 1] - 48)

\* The days of month mo of the year 20yy (19yy from 69 on).
DaysIn(yy, mo) ==
    IF mo = 2 THEN (IF yy % 4 = 0 THEN 29 ELSE 28)
    ELSE IF mo \in {4, 6, 9, 11} THEN 30 ELSE 31

\* time.ParseInLocation("060102150405 MST", digits + " " + zone, loc): six
\* fields of two digits each and nothing else before the blank, each field
\* in its range.
ParseInLocation(digits, zone) ==
    IF Len(digits) # 12 \/ \E i \in 1..Len(digits) : digits[i] \notin 48..57
    THEN [err |-> "time.ParseError", time |-> <<>>]
    ELSE LET yy == TwoDigits(digits, 1)
             mo == TwoDigits(digits, 3)
             dd == TwoDigits(digits, 5)
             hh == TwoDigits(digits, 7)
             mi == TwoDigits(digits, 9)
             ss == TwoDigits(digits, 11)
         IN  IF mo \notin 1..12 \/ dd < 1 \/ dd > DaysIn(yy, mo)
                \/ hh > 23 \/ mi > 59 \/ ss > 59
             THEN [err |-> "time.ParseError", time |-> <<>>]
             ELSE [err |-> "nil",
                   time |-> [year |-> yy, month |-> mo, day |-> dd, hour |-> hh,
                             minute |-> mi, second |-> ss, zone |-> zone]]

\* Lines 50-57 for a non-empty timestamp: the switch on its last byte.
timezoneOf(timestamp) ==
    IF Last(timestamp) = UpperS THEN summerTimezone
    ELSE IF Last(timestamp) = UpperW THEN winterTimezone
    ELSE "default"

\* Lines 43-70.  timestamp[len(timestamp)-1] indexes at -1 when the string
\* is empty: a runtime panic.
ParseTimestamp(timestamp) ==
    IF Len(timestamp) = 0
    THEN [fn |-> "ParseTimestamp", panic |-> TRUE, err |-> "nil", time |-> <<>>]
    ELSE IF timezoneOf(timestamp) = "default"
    THEN [fn |-> "ParseTimestamp", panic |-> FALSE, err |-> ErrorParseTimestamp,
          time |-> <<>>]
    ELSE [fn |-> "ParseTimestamp", panic |-> FALSE,
          err |-> ParseInLocation(SubSeq(timestamp, 1, Len(timestamp) - 1),
                                  timezoneOf(timestamp)).err,
          time |-> ParseInLocation(SubSeq(timestamp, 1, Len(timestamp) - 1),
                                   timezoneOf(timestamp)).time]

\* Two digits as text.
Field(n) == <<48 + (n \div 10), 48 + (n % 10)>>

\* YYMMDDhhmmss of some dates and times, in and out of range; shorter texts.
StampDigits ==
    {Field(21) \o Field(mo) \o Field(dd) \o Field(hh) \o Field(mi) \o Field(0) :
        mo \in {0, 2, 3, 4, 13}, dd \in {0, 15, 29, 31}, hh \in {12, 24},
        mi \in {0, 60}}
    \cup {<<>>, <<50>>, Field(21) \o Field(3) \o Field(15) \o Field(12) \o Field(0)}

\* S, W, X, s, or nothing
StampEnds == {<<UpperS>>, <<UpperW>>, <<88>>, <<115>>, <<>>}

TimestampInit ==
    /\ Quiet
    /\ arg \in {d \o e : d \in StampDigits, e \in StampEnds}
    /\ ret = NoCall
    /\ dr = NoReader

CallParseTimestamp ==
    /\ ret = NoCall
    /\ ret' = ParseTimestamp(arg)
    /\ UNCHANGED <<poller, arg, dr>>

TimestampNext == CallParseTimestamp

TimestampSpec == TimestampInit /\ [][TimestampNext]_vars

----------------------------------------------------------------------------
(* A frame whose trailer line has the wrong length, among well-formed      *)
(* frames, then end of stream.                                             *)

\* '/' .. '!', then a trailer line that is not 4 digits, CR, LF
WrongLen(b, trailer) == Seg("wronglen", b, b \o trailer)

WrongTrailers(b) ==
    {SubSeq(WireCRC(Checksum(b)), 1, 3) \o CRLF,
     WireCRC(Checksum(b)) \o <<48>> \o CRLF,
     WireCRC(Checksum(b)) \o <<LF>>,
     <<LF>>,
     CRLF \o WireCRC(Checksum(b)) \o CRLF,
     WireCRC(Checksum(b)) \o GoodFrame(BodyMin).bytes}

PollTrailer ==
    /\ rpc = "idle"
    /\ \E b \in {BodyMin, BodyOk} : \E tr \in WrongTrailers(b) :
       \E pre \in {<<>>} \cup {<<GoodFrame(x)>> : x \in {BodyMin, BodyOk}} :
       \E n \in 1..MaxAfter : \E after \in [1..n -> {BodyMin, BodyOk}] :
          PollOn(pre \o <<WrongLen(b, tr)>>
                     \o [i \in 1..n |-> GoodFrame(after[i])], "EOF")
    /\ UNCHANGED calls

TrailerNext ==
    \/ PollTrailer
    \/ SeekStart
    \/ Continue
    \/ CaptureBody
    \/ CaptureTrailer
    \/ Handoff
    \/ Close
    \/ ParseTelegram
    \/ RangeEnd

TrailerSpec == Init /\ [][TrailerNext]_vars /\ Fairness

----------------------------------------------------------------------------
(* One frame whose trailer carries the body's checksum in some notation,   *)
(* perhaps a well-formed frame after it, then end of stream.               *)

\* "/04!": its checksum, 03DE, begins with a zero
BodyPad == <<SLASH, 48, 52, BANG>>

\* The checksum n as a meter might write it: 4 uppercase digits; 4 lowercase
\* digits; uppercase without leading zeros; uppercase with blanks for the
\* leading zeros.
RECURSIVE Unpadded(_)
Unpadded(digits) ==
    IF Len(digits) > 1 /\ Head(digits) = 48 THEN Unpadded(Tail(digits))
    ELSE digits
Notations(n) ==
    {WireCRC(n),
     [i \in 1..4 |-> IF WireCRC(n)[i] >= 65 THEN WireCRC(n)[i] + 32
                     ELSE WireCRC(n)[i]],
     Unpadded(WireCRC(n)),
     [i \in 1..(4 - Len(Unpadded(WireCRC(n)))) |-> 32] \o Unpadded(WireCRC(n))}

HexFrame(b, digits) == Seg("hex", b, b \o digits \o CRLF)

PollHex ==
    /\ rpc = "idle"
    /\ \E b \in {BodyMin, BodyOk, BodyPad} : \E digits \in Notations(Checksum(b)) :
       \E after \in {<<>>} \cup {<<GoodFrame(x)>> : x \in {BodyMin, BodyOk, BodyPad}} :
          PollOn(<<HexFrame(b, digits)>> \o after, "EOF")
    /\ UNCHANGED calls

HexNext ==
    \/ PollHex
    \/ SeekStart
    \/ Continue
    \/ CaptureBody
    \/ CaptureTrailer
    \/ Handoff
    \/ Close
    \/ ParseTelegram
    \/ RangeEnd

HexSpec == Init /\ [][HexNext]_vars

----------------------------------------------------------------------------
(* The checksum of a byte slice *)

ChecksumBytes == {0, 1, SLASH, 128, 255}

\* "123456789"
CheckString == <<49, 50, 51, 52, 53, 54, 55, 56, 57>>

ChecksumInit ==
    /\ Quiet
    /\ arg \in UNION {[1..n -> ChecksumBytes] : n \in 0..MaxBytes} \cup {CheckString}
    /\ ret = NoCall
    /\ dr = NoReader

CallChecksum ==
    /\ ret = NoCall
    /\ ret' = [fn |-> "Checksum", crc |-> Checksum(arg), p1 |-> p1crc16(arg)]
    /\ UNCHANGED <<poller, arg, dr>>

ChecksumNext == CallChecksum

ChecksumSpec == ChecksumInit /\ [][ChecksumNext]_vars

----------------------------------------------------------------------------
(* RateLimit and delayedReader.Read *)

\* The input is a file: its bytes, then io.EOF.  dr.rd is a bufio.Reader over
\* it (its buffer is larger than any p of the model): rd holds the input's
\* bytes and r, the number of them already read from dr.rd.

\* RateLimit(input, delay), lines 200-202; and what a reader of it has got
\* so far: out, all bytes returned; chunk, n, err, waited: the last Read's
\* bytes, results, and whether it took a tick.  C is dr.ticker.C: a channel of
\* capacity 1.
RateLimit(input) ==
    [made |-> TRUE, rd |-> input, r |-> 0, delim |-> SLASH, C |-> 0,
     pc |-> "ready", lenp |-> 0, out |-> <<>>, chunk |-> <<>>, n |-> 0,
     err |-> "nil", waited |-> FALSE]

CallRateLimit ==
    /\ ~dr.made
    /\ dr' = RateLimit(arg)
    /\ UNCHANGED <<poller, arg, ret>>

\* dr.rd.Peek(n): the next n bytes, fewer at the end of the input.
Peek(n) == SubSeq(dr.rd, dr.r + 1, Min({dr.r + n, Len(dr.rd)}))

\* bytes.IndexByte(b, c)
IndexByte(b, c) == Index[b, <<c>>]

\* dr.rd.Read(q) for a q of length len, returning to Read's caller: at most
\* len buffered bytes; (0, nil) for an empty q while bytes are buffered;
\* (0, io.EOF) at the end of the input.
rdRead(len, took) ==
    LET n == Min({len, Len(dr.rd) - dr.r})
        bytes == SubSeq(dr.rd, dr.r + 1, dr.r + n)
    IN  [dr EXCEPT !.r = dr.r + n,
                   !.out = dr.out \o bytes,
                   !.chunk = bytes,
                   !.n = n,
                   !.err = IF len > 0 /\ n = 0 THEN "EOF" ELSE "nil",
                   !.waited = took,
                   !.pc = "ready"]

\* Lines 162-178: a call Read(p) up to its return, or up to the receive
\* from the ticker.
ReadCall ==
    /\ dr.made
    /\ dr.pc = "ready"
    /\ \E lenp \in 1..MaxP :
          LET i1 == IndexByte(Peek(lenp), dr.delim)
          IN  dr' = IF i1 = -1 THEN rdRead(lenp, FALSE)
                    ELSE IF i1 # 0 THEN rdRead(i1, FALSE)
                    ELSE [dr EXCEPT !.pc = "wait", !.lenp = lenp]
    /\ UNCHANGED <<poller, arg, ret>>

\* The ticker fires; a tick that finds the last one not yet taken is dropped.
Tick ==
    /\ dr.made
    /\ dr.C = 0
    /\ dr' = [dr EXCEPT !.C = 1]
    /\ UNCHANGED <<poller, arg, ret>>

\* Lines 181-191: after the tick.
afterTick(tmp, i1) ==
    LET i2 == IndexByte(SubSeq(tmp, i1 + 2, Len(tmp)), dr.delim)
    IN  IF i2 = -1 THEN rdRead(dr.lenp, TRUE) ELSE rdRead(i2, TRUE)

\* Lines 178-191: the receive from dr.ticker.C, and the rest of the call.
ReadAfterTick ==
    /\ dr.made
    /\ dr.pc = "wait"
    /\ dr.C = 1
    /\ dr' = [afterTick(Peek(dr.lenp), 0) EXCEPT !.C = 0]
    /\ UNCHANGED <<poller, arg, ret>>

DelayInit ==
    /\ Quiet
    /\ arg \in UNION {[1..n -> {SLASH, 88}] : n \in 0..MaxSrc}
    /\ ret = NoCall
    /\ dr = NoReader

DelayNext ==
    \/ CallRateLimit
    \/ ReadCall
    \/ Tick
    \/ ReadAfterTick

\* The ticker keeps firing, and the program keeps calling Read.
DelaySpec ==
    /\ DelayInit
    /\ [][DelayNext]_vars
    /\ WF_vars(CallRateLimit)
    /\ WF_vars(ReadCall)
    /\ WF_vars(Tick)
    /\ WF_vars(ReadAfterTick)

----------------------------------------------------------------------------
(* A consumer that stops receiving *)

\* The consumer leaves its loop over ch, or never comes back to it.
ConsumerStops ==
    /\ cpc \in {"recv", "got"}
    /\ cpc' = "stopped"
    /\ UNCHANGED <<plan, stream, tail, pos, rpc, data, validated, received,
                   closes, nlog, parseOut>>
    /\ UNCHANGED calls

PollFrames ==
    /\ rpc = "idle"
    /\ \E n \in 1..MaxSegs :
       \E p \in [1..n -> {GoodFrame(BodyMin), GoodFrame(BodyOk), BadFrame(BodyMin)}] :
       \E tl \in {"EOF", "ERR"} : PollOn(p, tl)
    /\ UNCHANGED calls

CancelNext ==
    \/ PollFrames
    \/ SeekStart
    \/ Continue
    \/ CaptureBody
    \/ CaptureTrailer
    \/ Handoff
    \/ Close
    \/ ParseTelegram
    \/ RangeEnd
    \/ ConsumerStops

CancelSpec == Init /\ [][CancelNext]_vars

----------------------------------------------------------------------------
(* Frames with further '/' bytes inside, between noise that holds '/' and *)
(* '!', frames cut short and failing reads                                *)

BodySlash == <<SLASH, SLASH, 65, BANG>>
BodyInner == <<SLASH, 65, SLASH, 66, BANG>>
SpanBodies == {BodyMin, BodySlash, BodyInner}

SpanFrames ==
    {GoodFrame(b) : b \in SpanBodies}
    \cup {BadFrame(BodyMin), CutFrame(<<SLASH, 65>>)}

\* What lies between two frames: nothing, a '/', a '!', a failing read.
Gaps == {<<>>, <<SLASH>>, <<BANG>>, <<ERR>>}

PollSpan ==
    /\ rpc = "idle"
    /\ \E n \in NoiseStrings \cup {<<>>}, f1 \in SpanFrames, g \in Gaps,
          f2 \in SpanFrames :
          PollOn(<<Noise(n), f1, Noise(g), f2>>, "EOF")
    /\ UNCHANGED calls

SpanNext ==
    \/ PollSpan
    \/ SeekStart
    \/ Continue
    \/ CaptureBody
    \/ CaptureTrailer
    \/ Handoff
    \/ Close
    \/ ParseTelegram
    \/ RangeEnd

SpanSpec == Init /\ [][SpanNext]_vars

----------------------------------------------------------------------------
(* Properties *)

\* The value of an uppercase hexadecimal digit, -1 for any other byte.
UpperHexValue(c) ==
    IF c \in 48..57 THEN c - 48 ELSE IF c \in 65..70 THEN c - 55 ELSE -1

\* tr is 4 uppercase hexadecimal digits that read n.
IsUpperHex4Of(tr, n) ==
    /\ Len(tr) = 4
    /\ \A i \in 1..4 : UpperHexValue(tr[i]) >= 0
    /\ n = 4096 * UpperHexValue(tr[1]) + 256 * UpperHexValue(tr[2])
           + 16 * UpperHexValue(tr[3]) + UpperHexValue(tr[4])

IsPrefix(a, b) == Len(a) <= Len(b) /\ a = SubSeq(b, 1, Len(a))

Telegrams(v) == [i \in 1..Len(v) |-> v[i].t]

\* C1: every Telegram the consumer received begins with '/', is the stream's
\* bytes from that '/' through the '!' that ends it, and the 4 stream bytes
\* after that '!' are the 4 uppercase hex digits of the checksum of the
\* delivered bytes.
C1_DeliveredVerified ==
    /\ Len(received) <= Len(validated)
    /\ \A i \in 1..Len(received) :
          LET t == received[i]
              e == validated[i].end
          IN  /\ t # <<>>
              /\ t[1] = SLASH
              /\ Len(t) <= e
              /\ e + 4 <= Len(stream)
              /\ SubSeq(stream, e - Len(t) + 1, e) = t
              /\ stream[e] = BANG
              /\ IsUpperHex4Of(SubSeq(stream, e + 1, e + 4), Checksum(t))

\* A frame was delivered from a stream in which a frame with a wrong trailer
\* came first.
C1_Witness ==
    /\ Len(plan) >= 2
    /\ plan[1].kind = "bad"
    /\ Len(received) >= 1

\* The scenario's stream: noise, frame, frame with a wrong trailer, frame.
ScenarioFrames == <<plan[2].body, plan[4].body>>
NoSlashInNoise ==
    /\ rpc # "idle"
    /\ \A i \in 1..Len(plan[1].bytes) : plan[1].bytes[i] # SLASH

\* C2 as stated: whatever the noise bytes are, once the reader has stopped
\* the consumer holds exactly the first and the third frame.
C2_AnyNoise == rpc = "done" => received = ScenarioFrames

\* C2, amended: when no noise byte is '/', the consumer never holds anything
\* but a prefix of <<first frame, third frame>>, the wrong frame is logged,
\* and eventually the channel is closed with exactly those two received.
C2_TwoDelivered ==
    /\ [](NoSlashInNoise => IsPrefix(received, ScenarioFrames))
    /\ [](NoSlashInNoise /\ rpc = "done" => nlog >= 1 /\ Len(received) = 2)
    /\ NoSlashInNoise ~> (cpc = "end" /\ received = ScenarioFrames)

C2_Witness ==
    /\ NoSlashInNoise
    /\ cpc = "end"
    /\ Len(received) = 2
    /\ received[1] # received[2]

\* C3: what the consumer received is a prefix of what the reader validated,
\* and the validated frames lie in the stream in the order of validation.
C3_PrefixInOrder ==
    /\ IsPrefix(received, Telegrams(validated))
    /\ \A i, j \in 1..Len(validated) :
          i < j => validated[i].end < validated[j].end

C3_Witness ==
    /\ Len(received) = 3
    /\ received[1] # received[2]
    /\ received[2] # received[3]

\* C4: when the stream ends in end-of-stream, the channel is eventually
\* closed; it is closed at most once, only with every validated frame handed
\* over, and nothing is received after the close.
C4_ClosedOnce ==
    /\ (rpc # "idle" /\ tail = "EOF") ~> (closes = 1)
    /\ [](closes <= 1)
    /\ [](closes = 1 => rpc = "done" /\ received = Telegrams(validated))
    /\ [][closes >= 1 => received' = received]_vars

C4_Witness ==
    /\ tail = "EOF"
    /\ closes = 1
    /\ Len(received) >= 2

\* The stream ends inside a frame: after its '/', before its '!' or before
\* its trailer's line terminator.
EndsMidFrame ==
    /\ rpc # "idle"
    /\ plan # <<>>
    /\ Last(plan).kind = "cut"
    /\ tail = "EOF"
CutStart == Len(stream) - Len(Last(plan).bytes)

\* C5: when the stream ends inside a frame, nothing that reaches into that
\* partial frame is validated or received, and the reader eventually stops
\* with the channel closed and the consumer at the end of its range.
C5_NoPartialFrame ==
    /\ [](EndsMidFrame =>
            /\ \A i \in 1..Len(validated) : validated[i].end <= CutStart
            /\ IsPrefix(received, Telegrams(validated)))
    /\ EndsMidFrame ~> (rpc = "done" /\ closes = 1 /\ cpc = "end")

C5_Witness ==
    /\ EndsMidFrame
    /\ Len(plan) = 2
    /\ plan[1].kind = "good"
    /\ Last(plan).bytes[Len(Last(plan).bytes)] # 65
    /\ cpc = "end"
    /\ Len(received) = 1

\* C6: when every read from some point on fails with the same error, the
\* reader eventually stops and closes the channel.
C6_ErrorStopsReader == (tail = "ERR") ~> (rpc = "done" /\ closes = 1)

\* C7: at most one validated frame waits for the consumer, exactly while the
\* reader is at its send; meanwhile the reader reads nothing; once past the
\* send every validated frame has been received.
C7_BlockingHandoff ==
    /\ [](IF rpc = "send"
          THEN /\ Len(validated) = Len(received) + 1
               /\ Last(validated).t = data
          ELSE received = Telegrams(validated))
    /\ [][rpc = "send" => pos' = pos /\ data' = data
                          /\ validated' = validated]_vars

\* The consumer is still busy with the previous Telegram while the next
\* validated frame waits.
C7_Witness ==
    /\ rpc = "send"
    /\ cpc = "got"
    /\ Len(received) = 1
    /\ Len(validated) = 2

\* The stream is one frame alone, then end of stream.
AloneFrame(kind) ==
    /\ rpc # "idle"
    /\ Len(plan) = 1
    /\ plan[1].kind = kind
    /\ tail = "EOF"

\* C8 as stated: a frame laid out '/'..'!', CR LF, 4 digits, CR LF and fed
\* alone is delivered.
C8_CRLFBeforeDigits ==
    AloneFrame("crlf") /\ rpc = "done" => received = <<plan[1].body>>

\* C8, amended: a frame laid out '/'..'!', the 4 uppercase hex digits of the
\* body's checksum right after the '!', CR LF, and fed alone is delivered.
C8_RoundTrip ==
    AloneFrame("good") /\ rpc = "done" => received = <<plan[1].body>>

C8_Witness ==
    /\ AloneFrame("good")
    /\ rpc = "done"
    /\ received = <<BodyOk>>

\* C9: Parse on a delivered Telegram returns; it never panics.
C9_ParseReturns == ~parseOut.panic

\* The layout of the Telegram handed to Parse is one of the four cases.
FewerThanTwoLines == Len(plan) < 2
FirstNotSlash == plan[1].bytes = <<>> \/ plan[1].bytes[1] # SLASH
SecondNotEmpty == Len(plan) >= 2 /\ plan[2].bytes # <<>>
DataLineWithoutParen ==
    \E i \in 3..(Len(plan) - 1) :
        \A k \in 1..Len(plan[i].bytes) : plan[i].bytes[k] # LPAREN

\* C10: in each of the four cases Parse returns an error and a nil map.
C10_ParseFails ==
    /\ cpc = "recv"
    /\ FewerThanTwoLines \/ FirstNotSlash \/ SecondNotEmpty
       \/ DataLineWithoutParen
    => ~parseOut.panic /\ parseOut.err # "nil" /\ parseOut.isNil

Max(S) == CHOOSE x \in S : \A y \in S : x >= y

\* Parse has been called and has returned without an error.
ParseSucceeded == parseOut # NotParsed /\ ~parseOut.panic /\ parseOut.err = "nil"

\* C11: when Parse succeeds on a delivered Telegram the mapping it returns
\* has at least one entry, and on a Telegram without data lines Parse fails.
C11_NoEmptyMapping ==
    /\ ParseSucceeded => DOMAIN parseOut.result # {}
    /\ parseOut # NotParsed /\ arg = <<>> => parseOut.err # "nil"

\* The mapping the records of a Telegram stand for: each code with the values
\* of the last record that carries it.
RecordMapping(recs) ==
    [c \in {recs[i].code : i \in 1..Len(recs)} |->
        recs[Max({i \in 1..Len(recs) : recs[i].code = c})].vals]

\* /HDR CR LF CR LF 1-0:1.7.0(0001.234*kW) CR LF !
ExampleTelegram ==
    <<47, 72, 68, 82, 13, 10, 13, 10, 49, 45, 48, 58, 49, 46, 55, 46, 48, 40,
      48, 48, 48, 49, 46, 50, 51, 52, 42, 107, 87, 41, 13, 10, 33>>

\* C12: Parse on a delivered Telegram of records returns, without an error,
\* the mapping from each code to the values of the last data line with that
\* code, in order and unchanged; on the example Telegram that is
\* {"1-0:1.7.0": ["0001.234*kW"]}.
C12_RecordsParsed ==
    parseOut # NotParsed =>
        /\ parseOut = Success(RecordMapping(arg))
        /\ Last(received) = ExampleTelegram =>
              parseOut.result = (PowerCode :> <<PowerValue>>)

\* Two data lines with the same code and different values were parsed.
C12_Witness ==
    /\ ParseSucceeded
    /\ Len(arg) = 2
    /\ arg[1].code = arg[2].code
    /\ arg[1].vals # arg[2].vals
    /\ Len(arg[2].vals) = 2

\* The bytes of a delivered Telegram's header line after its '/'.
HeaderLen(t) == Index[t, CRLF \o CRLF] - 1

\* C13: Identifier on a delivered Telegram whose header has at least 4 bytes
\* returns the bytes from offset 5 up to the first CR LF CR LF, and on the
\* example Telegram it returns "HDR".
C13_IdentifierReturns ==
    ret.fn = "Identifier" =>
        LET t == Last(received)
        IN  /\ HeaderLen(t) >= 4 =>
                  /\ ~ret.panic
                  /\ ret.str = SubSeq(t, 6, Index[t, CRLF \o CRLF])
            /\ t = ExampleTelegram => ~ret.panic /\ ret.str = <<72, 68, 82>>

RECURSIVE Pow10(_)
Pow10(e) == IF e = 0 THEN 1 ELSE 10 * Pow10(e - 1)

\* Two decimal values are the same number.
SameNumber(a, b) ==
    IF a.e >= b.e THEN a.m = b.m * Pow10(a.e - b.e)
    ELSE b.m = a.m * Pow10(b.e - a.e)

Stars(s) == {i \in 1..Len(s) : s[i] = STAR}
NumberPart(s) == SubSeq(s, 1, Min(Stars(s)) - 1)
UnitPart(s) == SubSeq(s, Min(Stars(s)) + 1, Len(s))

\* C14: ParseValueWithUnit returns the value-format error exactly when its
\* input does not hold exactly one '*'; with one '*' it returns an error
\* exactly when the text before the '*' is no number (and that error is not
\* the value-format error); otherwise it returns that number times 1000 and
\* the unit without its first byte when the unit begins with 'k', and the
\* number and the unit as they are when it does not.  The three examples
\* give (1234567, "Wh"), (230, "V") and the value-format error.
C14_ValueWithUnit ==
    ret.fn = "ParseValueWithUnit" =>
        /\ ret.err = ErrorParseValueWithUnit <=> Cardinality(Stars(arg)) # 1
        /\ Cardinality(Stars(arg)) = 1 =>
              LET number == ParseFloat(NumberPart(arg))
                  unit == UnitPart(arg)
              IN  /\ ret.err = "nil" <=> number.err = "nil"
                  /\ ret.err = "nil" /\ unit # <<>> /\ unit[1] = LowerK =>
                        /\ SameNumber(ret.value, Float(1000 * number.value.m,
                                                       number.value.e))
                        /\ ret.unit = Tail(unit)
                  /\ ret.err = "nil" /\ (unit = <<>> \/ unit[1] # LowerK) =>
                        /\ SameNumber(ret.value, number.value)
                        /\ ret.unit = unit
        /\ arg = <<49, 50, 51, 52, 46, 53, 54, 55, 42, 107, 87, 104>> =>
              /\ ret.err = "nil"
              /\ SameNumber(ret.value, Float(1234567, 0))
              /\ ret.unit = <<87, 104>>
        /\ arg = <<50, 51, 48, 46, 48, 42, 86>> =>
              /\ ret.err = "nil"
              /\ SameNumber(ret.value, Float(230, 0))
              /\ ret.unit = <<86>>
        /\ arg = <<98, 97, 100>> => ret.err = ErrorParseValueWithUnit

\* ".5*M" was parsed: a prefix other than 'k' and a value left as it is.
C14_Witness ==
    /\ ret.fn = "ParseValueWithUnit"
    /\ arg = <<DOT, 53, STAR, 77>>
    /\ ret.err = "nil"
    /\ ret.unit = <<77>>
    /\ SameNumber(ret.value, Float(5, 1))

\* C15: ParseTimestamp returns for every input, the empty string included;
\* it returns an error when the input does not end in 'S' or 'W'; and what it
\* returns without an error carries CEST for a final 'S', CET for a final 'W'.
C15_TimestampReturns ==
    ret.fn = "ParseTimestamp" =>
        /\ ~ret.panic
        /\ (arg = <<>> \/ Last(arg) \notin {UpperS, UpperW}) => ret.err # "nil"
        /\ ~ret.panic /\ ret.err = "nil" =>
              ret.time.zone = (IF Last(arg) = UpperS THEN "CEST" ELSE "CET")

\* The stream's next line terminator after item p, 0 when there is none.
NextLF(p) ==
    IF \E j \in (p + 1)..Len(stream) : stream[j] = LF
    THEN Min({j \in (p + 1)..Len(stream) : stream[j] = LF})
    ELSE 0

\* The bodies of the well-formed frames of a plan, in order.
RECURSIVE GoodBodies(_)
GoodBodies(p) ==
    IF p = <<>> THEN <<>>
    ELSE (IF Head(p).kind = "good" THEN <<Head(p).body>> ELSE <<>>)
         \o GoodBodies(Tail(p))

\* C16: when the bytes after a frame's '!' up to and including the next LF
\* are not 6 bytes, the reader logs, validates nothing, does not close the
\* channel and goes back to seeking at the byte after that LF; and every
\* well-formed frame that starts after that LF is delivered, the channel
\* being closed only at the end of the stream.
C16_WrongLengthAbandoned ==
    /\ [][rpc = "trailer" /\ rpc' # rpc
            /\ NextLF(pos) # 0 /\ NextLF(pos) - pos # CRCLen
            => /\ rpc' = "logged"
               /\ pos' = NextLF(pos)
               /\ nlog' >= 1
               /\ validated' = validated
               /\ closes' = closes]_vars
    /\ [][rpc = "logged" /\ rpc' # rpc => rpc' = "seek" /\ pos' = pos]_vars
    /\ [](closes > 0 => pos = Len(stream) /\ received = GoodBodies(plan))
    /\ (rpc # "idle") ~> (cpc = "end" /\ closes = 1
                          /\ received = GoodBodies(plan))

\* A well-formed frame, a frame whose over-long trailer line holds a whole
\* frame, two well-formed frames: all but the second were received.
C16_Witness ==
    /\ cpc = "end"
    /\ Len(plan) = 4
    /\ plan[2].kind = "wronglen"
    /\ Len(plan[2].bytes) > Len(plan[2].body) + 7
    /\ Len(received) = 3
    /\ nlog >= 1

\* The digits the first frame of the plan carries after its '!'.
TrailerDigits ==
    SubSeq(plan[1].bytes, Len(plan[1].body) + 1, Len(plan[1].bytes) - 2)

\* C17: a frame is delivered exactly when the 4 bytes after its '!' are the
\* 4 uppercase hexadecimal digits, zeros included, of its body's checksum;
\* the same value in lowercase digits, without its leading zeros, or padded
\* with blanks is not delivered.
C17_UpperPaddedOnly ==
    rpc = "done" =>
        received =
            (IF IsUpperHex4Of(TrailerDigits, Checksum(plan[1].body))
             THEN <<plan[1].body>> ELSE <<>>) \o GoodBodies(Tail(plan))

\* The frame "/04!" with the trailer "03de" was read and not delivered; the
\* frame after it was.
C17_Witness ==
    /\ rpc = "done"
    /\ Len(plan) = 2
    /\ plan[1].body = BodyPad
    /\ TrailerDigits = <<48, 51, 100, 101>>
    /\ received = <<plan[2].body>>

\* One bit of the reflected CRC: shift right, and exclusive-or the polynomial
\* 0xA001 in when the bit shifted out was set.
ShiftBit[crc \in Nat] ==
    IF crc % 2 = 1 THEN Xor[crc \div 2, 40961] ELSE crc \div 2

\* The bit-by-bit CRC, least significant bit first, from the register crc.
BitwiseCRC[crc \in Nat, p \in Seq(Nat)] ==
    IF p = <<>> THEN crc
    ELSE BitwiseCRC[
             ShiftBit[ShiftBit[ShiftBit[ShiftBit[ShiftBit[ShiftBit[ShiftBit[
                 ShiftBit[Xor[crc, Head(p)]]]]]]]]],
             Tail(p)]

\* C18: the checksum of a byte sequence is the bit-by-bit reflected CRC with
\* polynomial 0xA001 from the register 0, with no complement; it lies in
\* 0..65535; it is 0 for the empty sequence; it is the table step applied to
\* the checksum of the sequence without its last byte; p1crc16 computes the
\* same; and "123456789" gives 0xBB3D.
C18_ChecksumIsPlainCRC ==
    ret.fn = "Checksum" =>
        /\ ret.crc = BitwiseCRC[0, arg]
        /\ ret.crc \in 0..65535
        /\ arg = <<>> => ret.crc = 0
        /\ arg # <<>> =>
              LET acc == Checksum(SubSeq(arg, 1, Len(arg) - 1))
              IN  ret.crc = Xor[ibmTableNoXOR[Xor[acc % 256, Last(arg)]],
                                acc \div 256]
        /\ ret.p1 = ret.crc
        /\ arg = CheckString => ret.crc = 47933

\* The checksum of three bytes, the last with its top bit set, was computed.
C18_Witness ==
    /\ ret.fn = "Checksum"
    /\ Len(arg) = 3
    /\ arg[3] = 128
    /\ arg[1] = 255
    /\ ret.crc > 255

\* C19: the bytes RateLimit's reader returns are, in order, a prefix of the
\* input; a '/' is returned only as the first byte of a chunk, by a call that
\* took a tick; every call that returns gives at least one byte unless the
\* input is at its end; and every byte of the input is eventually returned.
C19_PacedReadProgress ==
    /\ [](dr.made => IsPrefix(dr.out, dr.rd)
                     /\ \A i \in 1..Len(dr.chunk) :
                           dr.chunk[i] = SLASH => i = 1 /\ dr.waited)
    /\ [][dr.made /\ dr'.pc = "ready" /\ (dr.pc = "wait" \/ dr'.out # dr.out)
            => dr'.n > 0 \/ dr'.err = "EOF"]_vars
    /\ dr.made ~> (dr.made /\ dr.out = dr.rd)

\* The reader is at its send and the consumer has stopped receiving.
BlockedOnHandoff == rpc = "send" /\ cpc = "stopped"

\* C20: once the reader is at its send with the consumer gone, it is there
\* in every later state: no step reads a byte, delivers or validates a
\* frame, or closes the channel, whether the source has bytes left, is at
\* its end or fails.
C20_BlockedForever ==
    /\ [][BlockedOnHandoff =>
            /\ BlockedOnHandoff'
            /\ pos' = pos
            /\ received' = received
            /\ validated' = validated
            /\ closes' = closes]_vars
    /\ [](BlockedOnHandoff => closes = 0 /\ Len(validated) = Len(received) + 1)

\* The reader is blocked with the second frame validated, the first one
\* received, and a third frame unread before the end of the stream.
C20_Witness ==
    /\ BlockedOnHandoff
    /\ tail = "EOF"
    /\ Len(plan) = 3
    /\ Len(received) = 1
    /\ Len(validated) = 2
    /\ plan[3].kind = "good"
    /\ pos < Len(stream) - Len(plan[3].bytes) + 1

\* How many bytes of s are c.
Count(s, c) == Cardinality({i \in 1..Len(s) : s[i] = c})

\* The reader found a '/' (lines 98-111); the reader read a body through a
\* '!' (lines 114-118).
SeekFound == rpc = "seek" /\ rpc' = "body"
BodyCaptured == rpc = "body" /\ rpc' = "trailer"

\* C21: a capture starts at the first '/' at or after the place where the
\* reader's previous reads ended, and takes every stream byte from that '/'
\* through the first '!' after it; so every validated Telegram, and with it
\* every received one, begins with that '/', holds exactly one '!', as its
\* last byte, and is that span of the stream, further '/' bytes included.
C21_CaptureSpan ==
    /\ [][SeekFound =>
             /\ pos' < Len(stream)
             /\ stream[pos' + 1] = SLASH
             /\ \A j \in (pos + 1)..pos' : stream[j] # SLASH]_vars
    /\ [][BodyCaptured =>
             /\ stream[pos + 1] = SLASH
             /\ stream[pos'] = BANG
             /\ \A j \in (pos + 1)..(pos' - 1) : stream[j] \notin {BANG, ERR}
             /\ data' = SubSeq(stream, pos + 1, pos')]_vars
    /\ [](\A i \in 1..Len(validated) :
             LET t == validated[i].t
                 e == validated[i].end
             IN  /\ t # <<>>
                 /\ t[1] = SLASH
                 /\ Last(t) = BANG
                 /\ Count(t, BANG) = 1
                 /\ t = SubSeq(stream, e - Len(t) + 1, e))
    /\ [](\A i \in 1..Len(received) :
             /\ i <= Len(validated)
             /\ received[i] = validated[i].t)

\* After noise that holds a '/', a capture was logged and dropped, and the
\* consumer has received a Telegram with a further '/' inside.
C21_Witness ==
    /\ Len(plan) = 4
    /\ Count(plan[1].bytes, SLASH) >= 1
    /\ nlog >= 1
    /\ \E i \in 1..Len(received) : Count(received[i], SLASH) >= 2

====
